---- MODULE Spec2Model ----
(***************************************************************************)
(* EV charging site feasibility checker (ev_site_feasibility_app.py).      *)
(*                                                                         *)
(* The source file carries two texts of several function bodies: the text  *)
(* of a change before it and after it, one after the other, with the       *)
(* places "@@ -a,b +c,d @@" (lines 23, 100, 138) standing for lines that   *)
(* are not shown.  The line counts of those places tell which lines belong *)
(* to which text (for lines 24..99: 26 shared, 28 only before, 22 only     *)
(* after).  Both texts are modelled; `revision` says which one runs:       *)
(*                                                                         *)
(*   "before"  road request outside any try (27-29), density by bounding   *)
(*             box (40-42), climate lookup against TEMP_RANGE (-20, 50)    *)
(*             (11, 71-86), seismic request outside any try (112-114,      *)
(*             126-129).                                                   *)
(*   "after"   road request inside try/except (30-37), density constant    *)
(*             500 (43-44), temperature stub (12, 87-92), seismic request  *)
(*             inside try/except (115-134).                                *)
(*                                                                         *)
(* An optional value (Python's None or a value) is a sequence of length 0  *)
(* or 1.  The seismic parameter Ss is counted in tenths.                   *)
(***************************************************************************)
EXTENDS Integers, Sequences, FiniteSets, TLC

VARIABLES
    revision,      \* which text of the changed functions runs
    mode,          \* "sequential": program order; "fanout": queries in any order
    pc,            \* "idle", "geocode", "resolve", "checks", "returned", "raised"
    address,       \* the text entered (a sequence of words)
    location,      \* what the geocoder answered: <<>> or <<[latitude, longitude]>>
    lat, lon,      \* locals of check_site_feasibility (optional integers)
    done,          \* the steps of check_site_feasibility already executed
    roadResp, elevResp, tempResp, floodResp, seisResp,  \* what each source answered
    near_roads, pop_density, zoning_ok, utility_ok,
    elevation, elevation_ok, temp_ok, flood_zone, seismic_risk,
    results,       \* what check_site_feasibility returned
    banner         \* what the page shows for the last evaluation

vars == <<revision, mode, pc, address, location, lat, lon, done,
          roadResp, elevResp, tempResp, floodResp, seisResp,
          near_roads, pop_density, zoning_ok, utility_ok,
          elevation, elevation_ok, temp_ok, flood_zone, seismic_risk,
          results, banner>>

----------------------------------------------------------------------------
(* Constants of the program *)

POP_DENSITY_THRESHOLD == 1000
MAX_ELEVATION_M == 2400
DEFAULT_ELEVATION_M == 1000
SS_RISK_TENTHS == 10
DENSE_AREA_DENSITY == 3000
LOW_DENSITY == 500
STUB_MIN_TEMP == 0
STUB_MAX_TEMP == 25
MISSING_MIN_TEMP == -50
MISSING_MAX_TEMP == 60

TEMP_RANGE == IF revision = "before" THEN <<-20, 50>> ELSE <<-25, 45>>

(* Bound of the model: how far around each threshold the readings range *)
Margin == 1

None == <<>>
Some(x) == <<x>>

Revisions == {"before", "after"}

----------------------------------------------------------------------------
(* The inputs *)

Addresses ==
    { <<"123", "Main", "St", "Commercial", "Park">>,
      <<"123", "Main", "St", "Suburbia">> }

Coordinates ==
    { [latitude |-> 33, longitude |-> -120],
      [latitude |-> 38, longitude |-> -117],
      [latitude |-> 33, longitude |-> -118],
      [latitude |-> 32, longitude |-> -118],
      [latitude |-> 39, longitude |-> -117],
      [latitude |-> 35, longitude |-> -121],
      [latitude |-> 35, longitude |-> -116] }

GeocoderAnswers == {None} \cup { Some(c) : c \in Coordinates }

(* A failed request: the request raises (connection error, timeout), the   *)
(* status is an error status (the body is an error page), or the status is *)
(* fine and the body is not the document expected.                         *)
Failures == {"neterr", "badstatus", "malformed"}

Pending == [kind |-> "pending", val |-> 0, min |-> 0, max |-> 0]
Resp(k, v, lo, hi) == [kind |-> k, val |-> v, min |-> lo, max |-> hi]

FailedResponses == { Resp(k, 0, 0, 0) : k \in Failures }

RoadResponses == { Resp("ok", n, 0, 0) : n \in 0..1 } \cup FailedResponses

ElevationResponses ==
    { Resp("ok", e, 0, 0) :
        e \in {0} \cup ((MAX_ELEVATION_M - Margin)..(MAX_ELEVATION_M + Margin)) }
    \cup FailedResponses

ClimateResponses ==
    { Resp("ok", 0, lo, hi) : lo \in (-20 - Margin)..(-20), hi \in 50..(50 + Margin) }
    \cup {Resp("ok", 0, MISSING_MIN_TEMP, MISSING_MAX_TEMP)}
    \cup FailedResponses

FloodResponses == { Resp("ok", n, 0, 0) : n \in 0..1 } \cup FailedResponses

SeismicResponses ==
    { Resp("ok", s, 0, 0) : s \in (SS_RISK_TENTHS - Margin)..(SS_RISK_TENTHS + Margin) }
    \cup FailedResponses

Failed(r) == r.kind \in Failures

----------------------------------------------------------------------------
(* The functions of the program.  A function that may raise answers        *)
(* [raised, val].                                                          *)

Return(v) == [raised |-> FALSE, val |-> v]
Raise(v) == [raised |-> TRUE, val |-> v]

geocode_address_origin(loc) ==
    IF loc # None THEN <<Some(loc[1].latitude), Some(loc[1].longitude)>>
    ELSE <<Some(0), Some(0)>>

geocode_address(loc) ==
    IF loc # None THEN <<Some(loc[1].latitude), Some(loc[1].longitude)>>
    ELSE <<None, None>>

is_near_major_roads(r) ==
    IF revision = "before"
    THEN IF r.kind = "ok" THEN Return(r.val > 0) ELSE Raise(FALSE)
    ELSE IF r.kind = "ok" THEN Return(r.val > 0) ELSE Return(FALSE)

estimate_population_density(la, lo) ==
    IF revision = "before"
    THEN IF 33 <= la /\ la <= 38 /\ -120 <= lo /\ lo <= -117
         THEN DENSE_AREA_DENSITY ELSE LOW_DENSITY
    ELSE LOW_DENSITY

lower(w) ==
    CASE w = "Commercial" -> "commercial"
      [] w = "Main" -> "main"
      [] w = "St" -> "st"
      [] w = "Park" -> "park"
      [] w = "Suburbia" -> "suburbia"
      [] OTHER -> w

is_zoning_compatible(a) ==
    \E i \in DOMAIN a : lower(a[i]) \in {"commercial", "industrial"}

is_utility_available(la, lo) == TRUE

get_elevation(r) == IF r.kind = "ok" THEN Some(r.val) ELSE None

OrDefault(x) == IF x = None \/ x = Some(0) THEN DEFAULT_ELEVATION_M ELSE x[1]

ElevationOk_inclusive(e) == e <= MAX_ELEVATION_M

ElevationOk(e) == e < MAX_ELEVATION_M

is_within_temp_range_strict(r) ==
    IF revision = "before"
    THEN IF r.kind = "ok"
         THEN TEMP_RANGE[1] < r.min /\ r.max < TEMP_RANGE[2]
         ELSE FALSE
    ELSE /\ TEMP_RANGE[1] < STUB_MIN_TEMP /\ STUB_MIN_TEMP < TEMP_RANGE[2]
         /\ TEMP_RANGE[1] < STUB_MAX_TEMP /\ STUB_MAX_TEMP < TEMP_RANGE[2]

is_within_temp_range(r) ==
    IF revision = "before"
    THEN IF r.kind = "ok"
         THEN TEMP_RANGE[1] <= r.min /\ r.max <= TEMP_RANGE[2]
         ELSE FALSE
    ELSE /\ TEMP_RANGE[1] <= STUB_MIN_TEMP /\ STUB_MIN_TEMP <= TEMP_RANGE[2]
         /\ TEMP_RANGE[1] <= STUB_MAX_TEMP /\ STUB_MAX_TEMP <= TEMP_RANGE[2]

is_in_flood_zone(r) == IF r.kind = "ok" THEN r.val > 0 ELSE FALSE

is_in_high_seismic_zone_inclusive(r) ==
    IF revision = "before"
    THEN CASE r.kind = "ok" -> Return(r.val >= SS_RISK_TENTHS)
           [] r.kind = "badstatus" -> Return(FALSE)
           [] OTHER -> Raise(FALSE)
    ELSE IF r.kind = "ok" THEN Return(r.val >= SS_RISK_TENTHS) ELSE Return(FALSE)

is_in_high_seismic_zone_shared(r) ==
    IF revision = "before"
    THEN CASE r.kind = "ok" -> Return(flood_zone \/ r.val > SS_RISK_TENTHS)
           [] r.kind = "badstatus" -> Return(FALSE)
           [] OTHER -> Raise(FALSE)
    ELSE IF r.kind = "ok" THEN Return(flood_zone \/ r.val > SS_RISK_TENTHS)
         ELSE Return(flood_zone)

is_in_high_seismic_zone(r) ==
    IF revision = "before"
    THEN CASE r.kind = "ok" -> Return(r.val > SS_RISK_TENTHS)
           [] r.kind = "badstatus" -> Return(FALSE)
           [] OTHER -> Raise(FALSE)
    ELSE IF r.kind = "ok" THEN Return(r.val > SS_RISK_TENTHS) ELSE Return(FALSE)

any(flags) == \E i \in DOMAIN flags : flags[i]

all(flags) == \A i \in DOMAIN flags : flags[i]

Feasible ==
    all(<< near_roads,
           pop_density > POP_DENSITY_THRESHOLD,
           zoning_ok,
           utility_ok,
           elevation_ok,
           temp_ok,
           ~flood_zone,
           ~seismic_risk >>)

NoResult == [kind |-> "none"]
StatusResult == [kind |-> "status"]
Verdict ==
    [ kind |-> "verdict",
      latitude |-> lat,
      longitude |-> lon,
      near_major_roads |-> near_roads,
      population_density |-> pop_density,
      zoning_compatible |-> zoning_ok,
      utility_available |-> utility_ok,
      elevation_m |-> elevation,
      elevation_ok |-> elevation_ok,
      temperature_range_ok |-> temp_ok,
      in_flood_zone |-> flood_zone,
      in_high_seismic_zone |-> seismic_risk,
      feasible |-> Feasible ]

----------------------------------------------------------------------------
(* The steps of check_site_feasibility and when each may run *)

Order == << "road", "density", "zoning", "utility",
            "elevation", "temp", "flood", "seismic" >>
Steps == { Order[i] : i \in DOMAIN Order }
Queries == {"road", "elevation", "temp", "flood", "seismic"}
Index(s) == CHOOSE i \in DOMAIN Order : Order[i] = s
Before(s) == { Order[i] : i \in 1..(Index(s) - 1) }

Ready(s) ==
    /\ pc = "checks"
    /\ s \notin done
    /\ IF mode = "sequential" THEN done = Before(s)
       ELSE IF s \in Queries THEN TRUE
       ELSE (Before(s) \ Queries) \subseteq done

locals == <<near_roads, pop_density, zoning_ok, utility_ok,
            elevation, elevation_ok, temp_ok, flood_zone, seismic_risk>>
responses == <<roadResp, elevResp, tempResp, floodResp, seisResp>>
fixed == <<revision, mode>>

FreshFrame ==
    /\ lat' = None /\ lon' = None /\ location' = None
    /\ done' = {}
    /\ roadResp' = Pending /\ elevResp' = Pending /\ tempResp' = Pending
    /\ floodResp' = Pending /\ seisResp' = Pending
    /\ near_roads' = FALSE /\ pop_density' = 0
    /\ zoning_ok' = FALSE /\ utility_ok' = FALSE
    /\ elevation' = 0 /\ elevation_ok' = FALSE
    /\ temp_ok' = FALSE /\ flood_zone' = FALSE /\ seismic_risk' = FALSE
    /\ results' = NoResult

InitCommon ==
    /\ revision \in Revisions
    /\ pc = "idle"
    /\ address = <<>>
    /\ location = None /\ lat = None /\ lon = None
    /\ done = {}
    /\ roadResp = Pending /\ elevResp = Pending /\ tempResp = Pending
    /\ floodResp = Pending /\ seisResp = Pending
    /\ near_roads = FALSE /\ pop_density = 0
    /\ zoning_ok = FALSE /\ utility_ok = FALSE
    /\ elevation = 0 /\ elevation_ok = FALSE
    /\ temp_ok = FALSE /\ flood_zone = FALSE /\ seismic_risk = FALSE
    /\ results = NoResult
    /\ banner = "none"

Init == InitCommon /\ mode = "sequential"

InitFanOut == InitCommon /\ mode = "fanout"

(* The page: an address is entered and check_site_feasibility is called *)
Submit ==
    /\ pc = "idle"
    /\ \E a \in Addresses : address' = a
    /\ pc' = "geocode"
    /\ FreshFrame
    /\ banner' = "none"
    /\ UNCHANGED fixed

Geocode ==
    /\ pc = "geocode"
    /\ \E answer \in GeocoderAnswers :
          /\ location' = answer
          /\ lat' = geocode_address(answer)[1]
          /\ lon' = geocode_address(answer)[2]
    /\ pc' = "resolve"
    /\ UNCHANGED <<fixed, address, done, responses, locals, results, banner>>

(* The lines not shown between 137 and 139: no coordinate, no evaluation *)
Resolve ==
    /\ pc = "resolve"
    /\ IF lat = None
       THEN /\ results' = StatusResult
            /\ pc' = "returned"
       ELSE /\ results' = results
            /\ pc' = "checks"
    /\ UNCHANGED <<fixed, address, location, lat, lon, done, responses, locals, banner>>

RoadCheck ==
    /\ Ready("road")
    /\ \E r \in RoadResponses :
          /\ roadResp' = r
          /\ IF is_near_major_roads(r).raised
             THEN /\ pc' = "raised"
                  /\ near_roads' = near_roads
             ELSE /\ pc' = pc
                  /\ near_roads' = is_near_major_roads(r).val
    /\ done' = done \cup {"road"}
    /\ UNCHANGED <<fixed, address, location, lat, lon,
                   elevResp, tempResp, floodResp, seisResp,
                   pop_density, zoning_ok, utility_ok, elevation, elevation_ok,
                   temp_ok, flood_zone, seismic_risk, results, banner>>

DensityCheck ==
    /\ Ready("density")
    /\ pop_density' = estimate_population_density(lat[1], lon[1])
    /\ done' = done \cup {"density"}
    /\ UNCHANGED <<fixed, pc, address, location, lat, lon, responses,
                   near_roads, zoning_ok, utility_ok, elevation, elevation_ok,
                   temp_ok, flood_zone, seismic_risk, results, banner>>

ZoningCheck ==
    /\ Ready("zoning")
    /\ zoning_ok' = is_zoning_compatible(address)
    /\ done' = done \cup {"zoning"}
    /\ UNCHANGED <<fixed, pc, address, location, lat, lon, responses,
                   near_roads, pop_density, utility_ok, elevation, elevation_ok,
                   temp_ok, flood_zone, seismic_risk, results, banner>>

UtilityCheck ==
    /\ Ready("utility")
    /\ utility_ok' = is_utility_available(lat[1], lon[1])
    /\ done' = done \cup {"utility"}
    /\ UNCHANGED <<fixed, pc, address, location, lat, lon, responses,
                   near_roads, pop_density, zoning_ok, elevation, elevation_ok,
                   temp_ok, flood_zone, seismic_risk, results, banner>>

ElevationCheck ==
    /\ Ready("elevation")
    /\ \E r \in ElevationResponses :
          /\ elevResp' = r
          /\ elevation' = OrDefault(get_elevation(r))
          /\ elevation_ok' = ElevationOk(OrDefault(get_elevation(r)))
    /\ done' = done \cup {"elevation"}
    /\ UNCHANGED <<fixed, pc, address, location, lat, lon,
                   roadResp, tempResp, floodResp, seisResp,
                   near_roads, pop_density, zoning_ok, utility_ok,
                   temp_ok, flood_zone, seismic_risk, results, banner>>

TempCheck ==
    /\ Ready("temp")
    /\ IF revision = "before"
       THEN \E r \in ClimateResponses :
               /\ tempResp' = r
               /\ temp_ok' = is_within_temp_range(r)
       ELSE /\ tempResp' = tempResp
            /\ temp_ok' = is_within_temp_range(tempResp)
    /\ done' = done \cup {"temp"}
    /\ UNCHANGED <<fixed, pc, address, location, lat, lon,
                   roadResp, elevResp, floodResp, seisResp,
                   near_roads, pop_density, zoning_ok, utility_ok,
                   elevation, elevation_ok, flood_zone, seismic_risk,
                   results, banner>>

FloodCheck ==
    /\ Ready("flood")
    /\ \E r \in FloodResponses :
          /\ floodResp' = r
          /\ flood_zone' = is_in_flood_zone(r)
    /\ done' = done \cup {"flood"}
    /\ UNCHANGED <<fixed, pc, address, location, lat, lon,
                   roadResp, elevResp, tempResp, seisResp,
                   near_roads, pop_density, zoning_ok, utility_ok,
                   elevation, elevation_ok, temp_ok, seismic_risk,
                   results, banner>>

SeismicCheck ==
    /\ Ready("seismic")
    /\ \E r \in SeismicResponses :
          /\ seisResp' = r
          /\ IF is_in_high_seismic_zone(r).raised
             THEN /\ pc' = "raised"
                  /\ seismic_risk' = seismic_risk
             ELSE /\ pc' = pc
                  /\ seismic_risk' = is_in_high_seismic_zone(r).val
    /\ done' = done \cup {"seismic"}
    /\ UNCHANGED <<fixed, address, location, lat, lon,
                   roadResp, elevResp, tempResp, floodResp,
                   near_roads, pop_density, zoning_ok, utility_ok,
                   elevation, elevation_ok, temp_ok, flood_zone,
                   results, banner>>

ReturnVerdict ==
    /\ pc = "checks"
    /\ done = Steps
    /\ results' = Verdict
    /\ pc' = "returned"
    /\ UNCHANGED <<fixed, address, location, lat, lon, done, responses, locals, banner>>

(* The page shows the result and waits for the next address *)
Display ==
    /\ pc = "returned"
    /\ banner' = IF results.kind = "status" THEN "invalid address"
                 ELSE IF results.feasible THEN "feasible" ELSE "risks"
    /\ pc' = "idle"
    /\ address' = <<>>
    /\ FreshFrame
    /\ UNCHANGED fixed

(* An exception left check_site_feasibility: the page shows the traceback *)
Traceback ==
    /\ pc = "raised"
    /\ banner' = "exception"
    /\ pc' = "idle"
    /\ address' = <<>>
    /\ FreshFrame
    /\ UNCHANGED fixed

Next ==
    \/ Submit
    \/ Geocode
    \/ Resolve
    \/ RoadCheck
    \/ DensityCheck
    \/ ZoningCheck
    \/ UtilityCheck
    \/ ElevationCheck
    \/ TempCheck
    \/ FloodCheck
    \/ SeismicCheck
    \/ ReturnVerdict
    \/ Display
    \/ Traceback

Spec == Init /\ [][Next]_vars

SpecFanOut == InitFanOut /\ [][Next]_vars

----------------------------------------------------------------------------
(* Properties *)

Terminal == pc \in {"returned", "raised"}
IsVerdict == results.kind = "verdict"

PassFlags(v) ==
    << v.near_major_roads,
       v.population_density > POP_DENSITY_THRESHOLD,
       v.zoning_compatible,
       v.utility_available,
       v.elevation_ok,
       v.temperature_range_ok,
       ~v.in_flood_zone,
       ~v.in_high_seismic_zone >>
FailCount(v) == Cardinality({ i \in DOMAIN PassFlags(v) : ~PassFlags(v)[i] })

InDensityBox(la, lo) == 33 <= la /\ la <= 38 /\ -120 <= lo /\ lo <= -117
InHeatBox(la, lo) == 33 <= la /\ la <= 37 /\ -118 <= lo /\ lo <= -112

NoQueryMade ==
    /\ roadResp = Pending /\ elevResp = Pending /\ tempResp = Pending
    /\ floodResp = Pending /\ seisResp = Pending

(* C1: in every verdict, `feasible` is the conjunction of the eight pass   *)
(* flags: true when none fails, false as soon as one fails.                *)
C1_FeasibleIsConjunction ==
    IsVerdict => (results.feasible <=> FailCount(results) = 0)

C1_OneCheckFails ==
    IsVerdict /\ FailCount(results) = 1 /\ ~results.feasible

(* C2: when the geocoder answers no coordinate, no source is queried, no   *)
(* step of the evaluation runs, and what is returned is the status result, *)
(* never a verdict.                                                        *)
C2_UnresolvedShortCircuits ==
    (pc \in {"resolve", "checks", "returned", "raised"} /\ location = None)
        => /\ NoQueryMade
           /\ done = {}
           /\ pc \in {"resolve", "returned"}
           /\ ~IsVerdict
           /\ (pc = "returned" => results = StatusResult)

C2_UnresolvedReturned ==
    pc = "returned" /\ location = None /\ results = StatusResult /\ NoQueryMade

(* C3: once a coordinate is resolved, no failure of a source leaves        *)
(* check_site_feasibility as an exception: the evaluation ends in a        *)
(* verdict.                                                                *)
C3_NoFatalFailure ==
    (Terminal /\ location # None) => (pc = "returned" /\ IsVerdict)

(* C4: an unavailable elevation, flood or seismic source reads as          *)
(* elevation 1000 m (ok), not in a flood zone, not high seismic; and when  *)
(* every other check passes and some of the three are unavailable (the     *)
(* rest passing), the evaluation ends in a feasible verdict.               *)
C4_OthersPass ==
    /\ near_roads /\ pop_density > POP_DENSITY_THRESHOLD
    /\ zoning_ok /\ utility_ok /\ temp_ok
    /\ (Failed(elevResp) \/ (elevResp.kind = "ok" /\ elevResp.val < MAX_ELEVATION_M))
    /\ (Failed(floodResp) \/ (floodResp.kind = "ok" /\ floodResp.val = 0))
    /\ (Failed(seisResp) \/ (seisResp.kind = "ok" /\ seisResp.val <= SS_RISK_TENTHS))
    /\ (Failed(elevResp) \/ Failed(floodResp) \/ Failed(seisResp))

C4_UnavailableSourcesPass ==
    (Terminal /\ location # None) =>
        /\ IsVerdict =>
              /\ Failed(elevResp) =>
                    (results.elevation_m = 1000 /\ results.elevation_ok)
              /\ Failed(floodResp) => ~results.in_flood_zone
              /\ Failed(seisResp) => ~results.in_high_seismic_zone
        /\ C4_OthersPass => (IsVerdict /\ results.feasible)

(* C5: when the road source is unavailable the evaluation ends in a        *)
(* verdict with near_major_roads false and feasible false.                 *)
C5_RoadUnavailableFails ==
    (Terminal /\ Failed(roadResp)) =>
        (IsVerdict /\ ~results.near_major_roads /\ ~results.feasible)

(* C6: an elevation reading of exactly 2400 m gives elevation_ok false and *)
(* an infeasible verdict; every reading below 2400 m gives elevation_ok    *)
(* true.                                                                   *)
C6_ElevationStrict ==
    (IsVerdict /\ elevResp.kind = "ok") =>
        /\ elevResp.val = 2400 => (~results.elevation_ok /\ ~results.feasible)
        /\ elevResp.val < 2400 => results.elevation_ok

C6_AtThreshold ==
    IsVerdict /\ elevResp.kind = "ok" /\ elevResp.val = 2400

(* C7: a seismic reading is flagged high risk exactly when Ss > 1.0; a     *)
(* reading of Ss = 1.0 is not flagged, and with every other check passing  *)
(* the verdict is feasible.                                                *)
C7_SeismicStrict ==
    (IsVerdict /\ seisResp.kind = "ok") =>
        /\ results.in_high_seismic_zone <=> seisResp.val > 10
        /\ (seisResp.val = 10 /\ FailCount(results) = 0) => results.feasible

C7_AtThresholdFeasible ==
    IsVerdict /\ seisResp.kind = "ok" /\ seisResp.val = 10 /\ results.feasible

(* C8 as stated: temperature_range_ok is false exactly when the coordinate *)
(* lies in the heat box lat in [33,37], lon in [-118,-112].                *)
C8_HeatBoxDecides ==
    IsVerdict =>
        (results.temperature_range_ok
            <=> ~InHeatBox(results.latitude[1], results.longitude[1]))

(* C8 amended: temperature_range_ok does not look at where the coordinate  *)
(* lies.  With the climate lookup it is true exactly when the source       *)
(* answers with annual minimum >= -20 and annual maximum <= 50 (false when *)
(* the source is unavailable); with the stub no source is queried and it   *)
(* is true for every coordinate.                                           *)
C8_TempRangeDecides ==
    IsVerdict =>
        IF revision = "before"
        THEN results.temperature_range_ok
                <=> (tempResp.kind = "ok" /\ tempResp.min >= -20 /\ tempResp.max <= 50)
        ELSE results.temperature_range_ok /\ tempResp = Pending

C8_HeatCornerInRange ==
    /\ IsVerdict
    /\ results.latitude = Some(33) /\ results.longitude = Some(-118)
    /\ results.temperature_range_ok
    /\ revision = "before" /\ tempResp.min = -20 /\ tempResp.max = 50

(* C9: whatever the order in which the sources are queried, the verdict is *)
(* the one the address, the coordinate and the five answers determine: no  *)
(* check reads what another check or an earlier evaluation left behind.    *)
C9_Expected ==
    [ kind |-> "verdict",
      latitude |-> Some(location[1].latitude),
      longitude |-> Some(location[1].longitude),
      near_major_roads |-> is_near_major_roads(roadResp).val,
      population_density |->
          estimate_population_density(location[1].latitude, location[1].longitude),
      zoning_compatible |-> is_zoning_compatible(address),
      utility_available |->
          is_utility_available(location[1].latitude, location[1].longitude),
      elevation_m |-> OrDefault(get_elevation(elevResp)),
      elevation_ok |-> ElevationOk(OrDefault(get_elevation(elevResp))),
      temperature_range_ok |-> is_within_temp_range(tempResp),
      in_flood_zone |-> is_in_flood_zone(floodResp),
      in_high_seismic_zone |-> is_in_high_seismic_zone(seisResp).val,
      feasible |->
          /\ is_near_major_roads(roadResp).val
          /\ estimate_population_density(location[1].latitude, location[1].longitude)
                > POP_DENSITY_THRESHOLD
          /\ is_zoning_compatible(address)
          /\ is_utility_available(location[1].latitude, location[1].longitude)
          /\ ElevationOk(OrDefault(get_elevation(elevResp)))
          /\ is_within_temp_range(tempResp)
          /\ ~is_in_flood_zone(floodResp)
          /\ ~is_in_high_seismic_zone(seisResp).val ]

C9_OrderIndependent ==
    /\ IsVerdict => results = C9_Expected
    /\ pc = "raised" =>
          \/ (roadResp # Pending /\ is_near_major_roads(roadResp).raised)
          \/ (seisResp # Pending /\ is_in_high_seismic_zone(seisResp).raised)

C9_SeismicBeforeFlood ==
    /\ mode = "fanout" /\ pc = "checks"
    /\ "seismic" \in done /\ "flood" \notin done /\ "road" \notin done

(* C10: the density check passes exactly when the coordinate lies in the   *)
(* box 33 <= lat <= 38, -120 <= lon <= -117 (density 3000); outside it the *)
(* estimate is 500 and the verdict is infeasible.                          *)
C10_DensityBox ==
    IsVerdict =>
        IF InDensityBox(results.latitude[1], results.longitude[1])
        THEN results.population_density = 3000
        ELSE results.population_density = 500 /\ ~results.feasible

====
